---------------------------- MODULE Spec2Model ----------------------------
(***************************************************************************)
(* A model of drawsvg/defs.py: the elements of an SVG <defs> section.       *)
(*                                                                         *)
(* Python values are records [kind, num, nz, str].  Numbers are kept in     *)
(* halves (num = 2 * value), so that the floats 0.5, 1.5, ... are exact, as *)
(* they are in IEEE double arithmetic; nz marks the float -0.0.             *)
(***************************************************************************)
EXTENDS Integers, Sequences, FiniteSets, TLC

VARIABLES heap,      \* the live elements, an element's identity is its index
          classTag,  \* the class attribute TAG_NAME of every class
          hist,      \* hist[i]: the calls made on element i, its constructor first
          ret        \* what the last call returned (or raised)

vars == <<heap, classTag, hist, ret>>

---------------------------------------------------------------------------
(* Bounds of the model.                                                    *)
MaxCoord == 2    \* gradient coordinates range over -MaxCoord..MaxCoord
MaxBox   == 1    \* marker bounding boxes range over -MaxBox..MaxBox
MaxScale == 2    \* marker scales range over -1..MaxScale
MaxObjs  == 4    \* elements alive at once, gradients and their stops
MaxItems == 3    \* elements alive at once, filters and their items

---------------------------------------------------------------------------
(* Python values.                                                          *)
None        == [kind |-> "None",  num |-> 0,     nz |-> FALSE, str |-> ""]
PyInt(n)    == [kind |-> "int",   num |-> 2 * n, nz |-> FALSE, str |-> ""]
PyHalves(h) == [kind |-> "float", num |-> h,     nz |-> FALSE, str |-> ""]
NegZero     == [kind |-> "float", num |-> 0,     nz |-> TRUE,  str |-> ""]
PyStr(s)    == [kind |-> "str",   num |-> 0,     nz |-> FALSE, str |-> s]

IsNumber(v) == v.kind \in {"int", "float"}
IsNeg(v)    == v.num < 0 \/ v.nz

\* a - b.  ok = FALSE is Python's TypeError (an operand is no number).
\* The difference of two floats is -0.0 only for (-0.0) - (+0.0).
PySub(a, b) ==
  IF ~(IsNumber(a) /\ IsNumber(b))
    THEN [ok |-> FALSE, val |-> None]
    ELSE [ok |-> TRUE,
          val |-> [kind |-> IF a.kind = "int" /\ b.kind = "int"
                              THEN "int" ELSE "float",
                   num  |-> a.num - b.num,
                   nz   |-> a.nz /\ b.num = 0 /\ ~b.nz,
                   str  |-> ""]]

\* -a, for a number a: the negation of the float 0.0 is -0.0.
PyNeg(a) ==
  [kind |-> a.kind, num |-> 0 - a.num,
   nz |-> a.kind = "float" /\ a.num = 0 /\ ~a.nz, str |-> ""]

\* float(a), for a number a.
PyFloat(a) == [kind |-> "float", num |-> a.num, nz |-> a.nz, str |-> ""]

\* a * b, for a float a and a number b one of which is whole: a float; a zero
\* product carries the sign of its operands.
PyMul(a, b) ==
  [kind |-> "float", num |-> (a.num * b.num) \div 2,
   nz |-> (a.num * b.num = 0) /\ (IsNeg(a) # IsNeg(b)), str |-> ""]

\* a == b: numbers compare by value whatever their type (1 == 1.0,
\* 0.0 == -0.0); other values compare equal only to themselves.
PyEq(a, b) ==
  IF IsNumber(a) /\ IsNumber(b) THEN a.num = b.num ELSE a = b

\* str(v), which '{}'.format(v) writes.
PyFormat(v) ==
  CASE v.kind = "None" -> "None"
    [] v.kind = "str" -> v.str
    [] v.kind = "int" -> ToString(v.num \div 2)
    [] v.kind = "float" ->
         LET a == IF v.num < 0 THEN 0 - v.num ELSE v.num
         IN  (IF IsNeg(v) THEN "-" ELSE "") \o ToString(a \div 2)
               \o (IF a % 2 = 0 THEN ".0" ELSE ".5")

\* {**d, **k}: the entries of d, then those of k, a later entry replacing an
\* earlier one of the same name.
Merge(d, k) ==
  [n \in DOMAIN d \cup DOMAIN k |-> IF n \in DOMAIN k THEN k[n] ELSE d[n]]

NoArgs == [n \in {} |-> None]

---------------------------------------------------------------------------
(* The element base class (drawsvg/elements.py): an element has a class, its *)
(* own instance attributes, an attribute map and an ordered child list.     *)
DrawingParentElement_init(cls, args) ==
  [cls |-> cls, own |-> NoArgs, args |-> args, children |-> <<>>]

\* TAG_NAME as the class statement sets it; FilterItem inherits the base's.
ClassTagName ==
  [c \in {"LinearGradient", "RadialGradient", "GradientStop", "ClipPath",
          "Mask", "Filter", "FilterItem", "Marker"} |->
     CASE c = "LinearGradient" -> "linearGradient"
       [] c = "RadialGradient" -> "radialGradient"
       [] c = "GradientStop"   -> "stop"
       [] c = "ClipPath"       -> "clipPath"
       [] c = "Mask"           -> "mask"
       [] c = "Filter"         -> "filter"
       [] c = "FilterItem"     -> "_"
       [] c = "Marker"         -> "marker"]

\* has_content: whether elements of the class take children.
has_content(cls) == cls # "GradientStop"

\* The subclasses of DrawingDef.
IsDrawingDef(cls) ==
  cls \in {"LinearGradient", "RadialGradient", "ClipPath", "Mask", "Filter",
           "Marker"}

\* self.TAG_NAME: the instance's attribute, or else its class's.
TagName(e, ctag) ==
  IF "TAG_NAME" \in DOMAIN e.own THEN e.own["TAG_NAME"] ELSE ctag[e.cls]

---------------------------------------------------------------------------
(* LinearGradient and RadialGradient.                                       *)

YShiftAlwaysOne(gradientUnits) == PyInt(1)

YShiftNever(gradientUnits) == PyInt(0)

\* y_shift = 0; if gradientUnits != 'userSpaceOnUse': y_shift = 1
YShift(gradientUnits) ==
  IF ~PyEq(gradientUnits, PyStr("userSpaceOnUse")) THEN PyInt(1) ELSE PyInt(0)

FlipNoneAsZero(y_shift, y) ==
  IF y = None THEN y_shift
  ELSE IF PySub(y_shift, y).ok THEN PySub(y_shift, y).val ELSE y

\* try: y = y_shift - y
\* except TypeError: pass
Flip(y_shift, y) ==
  IF PySub(y_shift, y).ok THEN PySub(y_shift, y).val ELSE y

LinearGradient_init(x1, y1, x2, y2, gradientUnits, kwargs) ==
  LET y_shift == YShift(gradientUnits)
      fy1 == Flip(y_shift, y1)
      fy2 == Flip(y_shift, y2)
  IN  DrawingParentElement_init("LinearGradient",
        Merge([x1 |-> x1, y1 |-> fy1, x2 |-> x2, y2 |-> fy2,
               gradientUnits |-> gradientUnits], kwargs))

RadialGradient_init(cx, cy, r, gradientUnits, fy, kwargs) ==
  LET y_shift == YShift(gradientUnits)
      fcy == Flip(y_shift, cy)
      ffy == Flip(y_shift, fy)
  IN  DrawingParentElement_init("RadialGradient",
        Merge([cx |-> cx, cy |-> fcy, r |-> r,
               gradientUnits |-> gradientUnits, fy |-> ffy], kwargs))

---------------------------------------------------------------------------
(* GradientStop, ClipPath, Mask and Filter take the base constructor.       *)
GradientStop_init(args) == DrawingParentElement_init("GradientStop", args)
ClipPath_init(args)     == DrawingParentElement_init("ClipPath", args)
Mask_init(args)         == DrawingParentElement_init("Mask", args)
Filter_init(args)       == DrawingParentElement_init("Filter", args)

---------------------------------------------------------------------------
(* FilterItem.  The constructor assigns an attribute, so it yields the new  *)
(* element together with the class attributes as it leaves them.            *)

FilterItem_init_on_class(tag_name, args, ctag) ==
  [obj  |-> DrawingParentElement_init("FilterItem", args),
   ctag |-> [ctag EXCEPT !["FilterItem"] = tag_name]]

\* super().__init__(**args); self.TAG_NAME = tag_name
FilterItem_init(tag_name, args, ctag) ==
  [obj  |-> [DrawingParentElement_init("FilterItem", args)
             EXCEPT !.own = [n \in {"TAG_NAME"} |-> tag_name]],
   ctag |-> ctag]

---------------------------------------------------------------------------
(* Marker.                                                                  *)

MarkerDefaultsScaledBox(minx, miny, maxx, maxy, scale, orient) ==
  LET width  == PySub(maxx, minx).val
      height == PySub(maxy, miny).val
      mw == PyMul(PyFloat(width), scale)
      mh == PyMul(PyFloat(height), scale)
  IN  [markerWidth  |-> IF PyEq(scale, PyInt(1)) THEN width ELSE mw,
       markerHeight |-> IF PyEq(scale, PyInt(1)) THEN height ELSE mh,
       viewBox |-> PyStr(PyFormat(minx) \o " " \o PyFormat(PyNeg(maxy))
                         \o " " \o PyFormat(mw) \o " " \o PyFormat(mh)),
       orient |-> orient]

\* width, height and the dict literal's own entries.
MarkerDefaults(minx, miny, maxx, maxy, scale, orient) ==
  LET width  == PySub(maxx, minx).val
      height == PySub(maxy, miny).val
  IN  [markerWidth  |-> IF PyEq(scale, PyInt(1)) THEN width
                        ELSE PyMul(PyFloat(width), scale),
       markerHeight |-> IF PyEq(scale, PyInt(1)) THEN height
                        ELSE PyMul(PyFloat(height), scale),
       viewBox |-> PyStr(PyFormat(minx) \o " " \o PyFormat(PyNeg(maxy))
                         \o " " \o PyFormat(width) \o " " \o PyFormat(height)),
       orient |-> orient]

Marker_init_defaults_last(minx, miny, maxx, maxy, scale, orient, kwargs) ==
  DrawingParentElement_init("Marker",
    Merge(kwargs, MarkerDefaults(minx, miny, maxx, maxy, scale, orient)))

\* kwargs = {..., **kwargs}; super().__init__(**kwargs)
Marker_init(minx, miny, maxx, maxy, scale, orient, kwargs) ==
  DrawingParentElement_init("Marker",
    Merge(MarkerDefaults(minx, miny, maxx, maxy, scale, orient), kwargs))

---------------------------------------------------------------------------
(* Children.  These operators take the heap h and yield the heap the call   *)
(* leaves, with what it returns (kind, ids).                                *)

\* self.append(child): child becomes the last child of self; an element
\* whose class has no content takes none.
DrawingParentElement_append(h, self, child) ==
  IF has_content(h[self].cls)
    THEN [h EXCEPT ![self].children = Append(@, child)]
    ELSE h

\* GradientStop(offset=offset, stop_color=color, stop_opacity=opacity,
\* **kwargs) raises TypeError when kwargs repeats one of the three names.
StopArgs(offset, color, opacity) ==
  [offset |-> offset, stop_color |-> color, stop_opacity |-> opacity]

StopClash(kwargs) ==
  DOMAIN kwargs \cap {"offset", "stop_color", "stop_opacity"} # {}

add_stop_swapped(h, self, offset, color, opacity, kwargs) ==
  IF StopClash(kwargs) THEN [heap |-> h, kind |-> "TypeError", ids |-> <<>>]
  ELSE LET stop == GradientStop_init(
                     Merge(StopArgs(offset, opacity, color), kwargs))
           id   == Len(h) + 1
       IN  [heap |-> DrawingParentElement_append(Append(h, stop), self, id),
            kind |-> "ref", ids |-> <<id>>]

add_stop_first(h, self, offset, color, opacity, kwargs) ==
  IF StopClash(kwargs) THEN [heap |-> h, kind |-> "TypeError", ids |-> <<>>]
  ELSE LET stop == GradientStop_init(
                     Merge(StopArgs(offset, color, opacity), kwargs))
           id   == Len(h) + 1
           h1   == Append(h, stop)
       IN  [heap |-> [h1 EXCEPT ![self].children = <<id>> \o @],
            kind |-> "ref", ids |-> <<id>>]

LinearGradient_add_stop(h, self, offset, color, opacity, kwargs) ==
  IF StopClash(kwargs) THEN [heap |-> h, kind |-> "TypeError", ids |-> <<>>]
  ELSE LET stop == GradientStop_init(
                     Merge(StopArgs(offset, color, opacity), kwargs))
           id   == Len(h) + 1
       IN  [heap |-> DrawingParentElement_append(Append(h, stop), self, id),
            kind |-> "ref", ids |-> <<id>>]

RadialGradient_add_stop_first(h, self, offset, color, opacity, kwargs) ==
  IF StopClash(kwargs) THEN [heap |-> h, kind |-> "TypeError", ids |-> <<>>]
  ELSE LET stop == GradientStop_init(
                     Merge(StopArgs(offset, color, opacity), kwargs))
           id   == Len(h) + 1
           h1   == Append(h, stop)
       IN  [heap |-> [h1 EXCEPT ![self].children = <<id>> \o @],
            kind |-> "None", ids |-> <<>>]

\* The same, but for the missing return statement.
RadialGradient_add_stop(h, self, offset, color, opacity, kwargs) ==
  IF StopClash(kwargs) THEN [heap |-> h, kind |-> "TypeError", ids |-> <<>>]
  ELSE LET stop == GradientStop_init(
                     Merge(StopArgs(offset, color, opacity), kwargs))
           id   == Len(h) + 1
       IN  [heap |-> DrawingParentElement_append(Append(h, stop), self, id),
            kind |-> "None", ids |-> <<>>]

get_svg_defs_children(self) == heap[self].children

\* return (self,)
DrawingDef_get_svg_defs(self) == <<self>>

---------------------------------------------------------------------------
(* The calls.  ret records the last call: its name, the element it was made *)
(* on, and what it returned (kind, ids).  hist keeps, per element, the      *)
(* calls that changed it.                                                   *)
Ret(op, self, kind, ids) ==
  [op |-> op, self |-> self, kind |-> kind, ids |-> ids]

Call(op, args, kwargs) == [op |-> op, args |-> args, kwargs |-> kwargs]

Init ==
  /\ heap = <<>>
  /\ classTag = ClassTagName
  /\ hist = <<>>
  /\ ret = Ret("", 0, "None", <<>>)

\* A constructor call: the new element joins the heap and is returned.
New(obj, call, ctag) ==
  /\ heap' = Append(heap, obj)
  /\ hist' = Append(hist, <<call>>)
  /\ ret' = Ret(call.op, Len(heap) + 1, "ref", <<Len(heap) + 1>>)
  /\ classTag' = ctag

NewLinearGradient(X, Y, U, K) ==
  \E x1 \in X, y1 \in Y, x2 \in X, y2 \in Y, u \in U, k \in K :
    New(LinearGradient_init(x1, y1, x2, y2, u, k),
        Call("LinearGradient",
             [x1 |-> x1, y1 |-> y1, x2 |-> x2, y2 |-> y2,
              gradientUnits |-> u], k),
        classTag)

NewRadialGradient(X, Y, U, K) ==
  \E cx \in X, cy \in Y, r \in X, u \in U, fy \in Y, k \in K :
    New(RadialGradient_init(cx, cy, r, u, fy, k),
        Call("RadialGradient",
             [cx |-> cx, cy |-> cy, r |-> r, gradientUnits |-> u,
              fy |-> fy], k),
        classTag)

NewMarker(B, S, O, K) ==
  \E minx \in B, miny \in B, maxx \in B, maxy \in B, scale \in S,
     orient \in O, k \in K :
    New(Marker_init(minx, miny, maxx, maxy, scale, orient, k),
        Call("Marker",
             [minx |-> minx, miny |-> miny, maxx |-> maxx, maxy |-> maxy,
              scale |-> scale, orient |-> orient], k),
        classTag)

NewFilterItem(T, K) ==
  \E tag_name \in T, k \in K :
    LET r == FilterItem_init(tag_name, k, classTag)
    IN  New(r.obj, Call("FilterItem", [tag_name |-> PyStr(tag_name)], k),
            r.ctag)

NewClipPath(K) ==
  \E k \in K : New(ClipPath_init(k), Call("ClipPath", NoArgs, k), classTag)

NewMask(K) ==
  \E k \in K : New(Mask_init(k), Call("Mask", NoArgs, k), classTag)

NewFilter(K) ==
  \E k \in K : New(Filter_init(k), Call("Filter", NoArgs, k), classTag)

\* g.add_stop(offset, color, opacity, **k): a call that raises leaves
\* everything as it was.
AddStop(g, r, offset, color, opacity, k) ==
  /\ heap' = r.heap
  /\ ret' = Ret("add_stop", g, r.kind, r.ids)
  /\ hist' = IF r.kind = "TypeError" THEN hist
             ELSE Append([hist EXCEPT ![g] = Append(@,
                            Call("add_stop",
                                 StopArgs(offset, color, opacity), k))],
                         <<Call("GradientStop",
                                StopArgs(offset, color, opacity), k)>>)
  /\ UNCHANGED classTag

LinearAddStop(O, C, P, K) ==
  \E g \in 1..Len(heap), offset \in O, color \in C, opacity \in P, k \in K :
    /\ heap[g].cls = "LinearGradient"
    /\ AddStop(g, LinearGradient_add_stop(heap, g, offset, color, opacity, k),
               offset, color, opacity, k)

RadialAddStop(O, C, P, K) ==
  \E g \in 1..Len(heap), offset \in O, color \in C, opacity \in P, k \in K :
    /\ heap[g].cls = "RadialGradient"
    /\ AddStop(g, RadialGradient_add_stop(heap, g, offset, color, opacity, k),
               offset, color, opacity, k)

Owned(c) == \E p \in 1..Len(heap) :
              \E j \in 1..Len(heap[p].children) : heap[p].children[j] = c

\* p.append(c), for an element c that has no parent and no children yet.
AppendChild ==
  \E p \in 1..Len(heap), c \in 1..Len(heap) :
    /\ p # c
    /\ ~Owned(c)
    /\ heap[c].children = <<>>
    /\ ~IsDrawingDef(heap[c].cls)
    /\ heap' = DrawingParentElement_append(heap, p, c)
    /\ IF has_content(heap[p].cls)
         THEN /\ ret' = Ret("append", p, "None", <<>>)
              /\ hist' = [hist EXCEPT ![p] =
                            Append(@, Call("append", [child |-> c], NoArgs))]
         ELSE /\ ret' = Ret("append", p, "RuntimeError", <<>>)
              /\ hist' = hist
    /\ UNCHANGED classTag

GetSvgDefs ==
  \E g \in 1..Len(heap) :
    /\ IsDrawingDef(heap[g].cls)
    /\ ret' = Ret("get_svg_defs", g, "tuple", DrawingDef_get_svg_defs(g))
    /\ UNCHANGED <<heap, hist, classTag>>

---------------------------------------------------------------------------
(* The gradient constructors on every input.                                *)
Ints(m)   == {PyInt(n) : n \in (0 - m)..m}
Floats(m) == {PyHalves(h) : h \in (0 - 2 * m)..(2 * m)} \cup {NegZero}

XVals  == {PyInt(0), PyHalves(1)}
YVals  == {None, PyStr("50%")} \cup Ints(MaxCoord) \cup Floats(MaxCoord)
Units  == {PyStr("userSpaceOnUse"), PyStr("objectBoundingBox"), PyStr("")}
Extras == {NoArgs, [n \in {"id"} |-> PyStr("g")]}

NextGrad ==
  \/ heap = <<>> /\ NewLinearGradient(XVals, YVals, Units, Extras)
  \/ heap = <<>> /\ NewRadialGradient(XVals, YVals, Units, Extras)

SpecGrad == Init /\ [][NextGrad]_vars

---------------------------------------------------------------------------
(* The Marker constructor on every input.                                   *)
BoxVals == Ints(MaxBox) \cup {PyHalves(0), NegZero, PyHalves(2)}
Scales  == {PyInt(n) : n \in (0 - 1)..MaxScale}
             \cup {PyHalves(1), PyHalves(2), PyHalves(3), NegZero}
Orients == {PyStr("auto")}
MarkerExtras ==
  {NoArgs,
   [n \in {"id"} |-> PyStr("m")],
   [n \in {"markerWidth"} |-> PyInt(7)],
   [n \in {"viewBox"} |-> PyStr("0 0 1 1")],
   [n \in {"markerHeight", "viewBox"} |->
      IF n = "viewBox" THEN PyStr("0 0 1 1") ELSE None]}

NextMarker ==
  heap = <<>> /\ NewMarker(BoxVals, Scales, Orients, MarkerExtras)

SpecMarker == Init /\ [][NextMarker]_vars

---------------------------------------------------------------------------
(* Filters and their items.                                                 *)
Tags == {"feGaussianBlur", "feOffset"}
ItemArgs ==
  {NoArgs,
   [n \in {"stdDeviation"} |-> PyInt(3)],
   [n \in {"TAG_NAME"} |-> PyStr("x")]}

NextFilter ==
  \/ Len(heap) < MaxItems /\ NewFilter({NoArgs})
  \/ Len(heap) < MaxItems /\ NewFilterItem(Tags, ItemArgs)
  \/ AppendChild

SpecFilter == Init /\ [][NextFilter]_vars

---------------------------------------------------------------------------
(* Every defs-root class, with its children.                                *)
OneX == {PyInt(0)}
OneY == {PyInt(1)}
OneUnit == {PyStr("userSpaceOnUse")}
Offsets == {PyHalves(1)}
Colors == {PyStr("red"), PyStr("blue")}
Opacities == {None, PyHalves(1)}
StopExtras == {NoArgs, [n \in {"stop_color"} |-> PyStr("green")]}

NextDefs ==
  \/ Len(heap) < MaxItems /\ NewLinearGradient(OneX, OneY, OneUnit, {NoArgs})
  \/ Len(heap) < MaxItems /\ NewRadialGradient(OneX, OneY, OneUnit, {NoArgs})
  \/ Len(heap) < MaxItems /\ NewClipPath({NoArgs})
  \/ Len(heap) < MaxItems /\ NewMask({NoArgs})
  \/ Len(heap) < MaxItems /\ NewFilter({NoArgs})
  \/ Len(heap) < MaxItems
       /\ NewMarker({PyInt(0)}, {PyInt(1)}, Orients, {NoArgs})
  \/ Len(heap) < MaxItems /\ NewFilterItem({"feOffset"}, {NoArgs})
  \/ Len(heap) < MaxItems
       /\ LinearAddStop(Offsets, {PyStr("red")}, {None}, {NoArgs})
  \/ Len(heap) < MaxItems
       /\ RadialAddStop(Offsets, {PyStr("red")}, {None}, {NoArgs})
  \/ AppendChild
  \/ GetSvgDefs

SpecDefs == Init /\ [][NextDefs]_vars

---------------------------------------------------------------------------
(* Gradients and their stops.                                               *)
TreeUnits == {PyStr("userSpaceOnUse"), PyStr("objectBoundingBox")}

Next ==
  \/ Len(heap) < MaxObjs /\ NewLinearGradient(OneX, OneY, TreeUnits, {NoArgs})
  \/ Len(heap) < MaxObjs /\ NewRadialGradient(OneX, OneY, TreeUnits, {NoArgs})
  \/ Len(heap) < MaxObjs /\ LinearAddStop(Offsets, Colors, Opacities, StopExtras)
  \/ Len(heap) < MaxObjs /\ RadialAddStop(Offsets, Colors, Opacities, StopExtras)

Spec == Init /\ [][Next]_vars

---------------------------------------------------------------------------
(* A linear and a radial gradient side by side, given stops.                *)
MaxStops == 4    \* stops given to the pair of gradients

InitPair ==
  /\ \E u \in TreeUnits :
       /\ heap = <<LinearGradient_init(PyInt(0), PyInt(1), PyInt(1), PyInt(0),
                                       u, NoArgs),
                   RadialGradient_init(PyInt(0), PyInt(1), PyInt(1), u, None,
                                       NoArgs)>>
       /\ hist = <<
            <<Call("LinearGradient",
                   [x1 |-> PyInt(0), y1 |-> PyInt(1), x2 |-> PyInt(1),
                    y2 |-> PyInt(0), gradientUnits |-> u], NoArgs)>>,
            <<Call("RadialGradient",
                   [cx |-> PyInt(0), cy |-> PyInt(1), r |-> PyInt(1),
                    gradientUnits |-> u, fy |-> None], NoArgs)>> >>
  /\ classTag = ClassTagName
  /\ ret = Ret("RadialGradient", 2, "ref", <<2>>)

NextPair ==
  \/ Len(heap) < 2 + MaxStops
       /\ LinearAddStop(Offsets, Colors, Opacities, StopExtras)
  \/ Len(heap) < 2 + MaxStops
       /\ RadialAddStop(Offsets, Colors, Opacities, StopExtras)

SpecPair == InitPair /\ [][NextPair]_vars

---------------------------------------------------------------------------
(* Properties.                                                              *)
Elems   == 1..Len(heap)
Ctor(i) == hist[i][1]
Last(q) == q[Len(q)]

\* The y-coordinates of gradient i, each as <<value passed, value stored>>.
YCoords(i) ==
  IF Ctor(i).op = "LinearGradient"
    THEN {<<Ctor(i).args.y1, heap[i].args.y1>>,
          <<Ctor(i).args.y2, heap[i].args.y2>>}
  ELSE IF Ctor(i).op = "RadialGradient"
    THEN {<<Ctor(i).args.cy, heap[i].args.cy>>,
          <<Ctor(i).args.fy, heap[i].args.fy>>}
  ELSE {}

UserSpace(i) == Ctor(i).args.gradientUnits = PyStr("userSpaceOnUse")

\* v stored as shift - v, a number of v's own type (shift is 0 or 1).
StoredAs(p, shift) ==
  /\ p[2].kind = p[1].kind
  /\ p[2].num = PyInt(shift).num - p[1].num

\* C1, as claimed: with gradientUnits "userSpaceOnUse" every numeric
\* y-coordinate is stored exactly as passed.
C1_stored_unmodified ==
  \A i \in Elems : \A p \in YCoords(i) :
    UserSpace(i) /\ IsNumber(p[1]) => p[2].kind = p[1].kind /\ PyEq(p[2], p[1])

\* C1, amended: with gradientUnits "userSpaceOnUse" every numeric
\* y-coordinate v is stored as 0 - v, its negation, so it is stored as passed
\* only when it is zero.
C1_stored_negated ==
  \A i \in Elems : \A p \in YCoords(i) :
    UserSpace(i) /\ IsNumber(p[1]) =>
      /\ StoredAs(p, 0)
      /\ (PyEq(p[2], p[1]) <=> p[1].num = 0)

C1_witness ==
  \E i \in Elems :
    /\ UserSpace(i)
    /\ Ctor(i).op = "LinearGradient"
    /\ Ctor(i).args.y1 = PyInt(1) /\ heap[i].args.y1 = PyInt(0 - 1)
    /\ Ctor(i).args.y2 = PyHalves(1)

\* C2: with gradientUnits any other string every numeric y-coordinate v is
\* stored as 1 - v, each coordinate on its own.
C2_flipped ==
  \A i \in Elems : \A p \in YCoords(i) :
    ~UserSpace(i) /\ IsNumber(p[1]) => StoredAs(p, 1)

C2_witness ==
  \E i \in Elems :
    /\ Ctor(i).args.gradientUnits = PyStr("objectBoundingBox")
    /\ Ctor(i).op = "LinearGradient"
    /\ Ctor(i).args.y1 = PyInt(0) /\ heap[i].args.y1 = PyInt(1)
    /\ Ctor(i).args.y2 = PyInt(1) /\ heap[i].args.y2 = PyInt(0)

\* C6: a y-coordinate passed as None is stored as None whatever gradientUnits
\* is; the constructor returns the gradient, and the other coordinate is
\* still flipped.
C6_none_kept ==
  \A i \in Elems :
    /\ ret.self = i => ret.kind = "ref"
    /\ \A p \in YCoords(i) : \A q \in YCoords(i) :
         p[1] = None =>
           /\ p[2] = None
           /\ IsNumber(q[1]) => StoredAs(q, IF UserSpace(i) THEN 0 ELSE 1)

C6_witness ==
  \E i \in Elems :
    /\ Ctor(i).op = "RadialGradient"
    /\ ~UserSpace(i)
    /\ Ctor(i).args.fy = None /\ heap[i].args.fy = None
    /\ Ctor(i).args.cy = PyInt(2) /\ heap[i].args.cy = PyInt(0 - 1)

\* What Marker's arguments make of its three computed attributes: the box's
\* width and height in halves, and the text of the view box.
BoxWidth(a)  == a.maxx.num - a.minx.num
BoxHeight(a) == a.maxy.num - a.miny.num
IsFloatBox(x, y) == x.kind = "float" \/ y.kind = "float"

Scaled(v, size, a) ==
  /\ IsNumber(v)
  /\ 2 * v.num = size * a.scale.num
  /\ a.scale.num = 2 => v.num = size

ViewBoxText(a) ==
  PyFormat(a.minx) \o " " \o PyFormat(PyNeg(a.maxy)) \o " "
    \o PyFormat(PySub(a.maxx, a.minx).val) \o " "
    \o PyFormat(PySub(a.maxy, a.miny).val)

Computed(n, v, a) ==
  CASE n = "markerWidth" ->
         /\ Scaled(v, BoxWidth(a), a)
         /\ v.kind = IF a.scale.num = 2 /\ ~IsFloatBox(a.maxx, a.minx)
                       THEN "int" ELSE "float"
    [] n = "markerHeight" ->
         /\ Scaled(v, BoxHeight(a), a)
         /\ v.kind = IF a.scale.num = 2 /\ ~IsFloatBox(a.maxy, a.miny)
                       THEN "int" ELSE "float"
    [] n = "viewBox" -> v = PyStr(ViewBoxText(a))

ComputedNames == {"markerWidth", "markerHeight", "viewBox"}

Markers == {i \in Elems : Ctor(i).op = "Marker"}

\* C4: without colliding keyword arguments, markerWidth is (maxx - minx) *
\* scale and markerHeight is (maxy - miny) * scale (the width and height
\* themselves, type kept, when scale == 1), and viewBox is the text
\* "minx -maxy width height" of the unscaled width and height.
C4_marker_size ==
  \A i \in Markers :
    DOMAIN Ctor(i).kwargs \cap ComputedNames = {} =>
      \A n \in ComputedNames : Computed(n, heap[i].args[n], Ctor(i).args)

C4_witness ==
  \E i \in Markers :
    /\ Ctor(i).kwargs = NoArgs
    /\ Ctor(i).args.minx = PyInt(0 - 1) /\ Ctor(i).args.maxx = PyInt(0)
    /\ Ctor(i).args.miny = PyInt(0 - 1) /\ Ctor(i).args.maxy = PyInt(1)
    /\ Ctor(i).args.scale = PyInt(2)
    /\ heap[i].args.markerWidth = PyHalves(4)
    /\ heap[i].args.markerHeight = PyHalves(8)
    /\ heap[i].args.viewBox = PyStr("-1 -1 1 2")

\* C7: a keyword argument named like a computed attribute is stored as the
\* caller passed it, and the computed attributes the caller did not name are
\* stored as computed.
C7_caller_wins ==
  \A i \in Markers :
    /\ \A n \in DOMAIN Ctor(i).kwargs : heap[i].args[n] = Ctor(i).kwargs[n]
    /\ \A n \in ComputedNames \ DOMAIN Ctor(i).kwargs :
         Computed(n, heap[i].args[n], Ctor(i).args)
    /\ heap[i].args.orient = Ctor(i).args.orient

C7_witness ==
  \E i \in Markers :
    /\ DOMAIN Ctor(i).kwargs = {"markerHeight", "viewBox"}
    /\ Ctor(i).args.minx = PyInt(0) /\ Ctor(i).args.maxx = PyInt(1)
    /\ Ctor(i).args.scale = PyHalves(3)
    /\ heap[i].args.markerHeight = None
    /\ heap[i].args.viewBox = PyStr("0 0 1 1")
    /\ heap[i].args.markerWidth = PyHalves(3)

Items == {i \in Elems : heap[i].cls = "FilterItem"}

\* C8: the tag of every FilterItem is the tag_name it was constructed with,
\* whatever items were constructed after it; its attribute map holds every
\* extra attribute passed and no attribute named tag_name.
C8_item_tag ==
  \A i \in Items :
    /\ PyStr(TagName(heap[i], classTag)) = Ctor(i).args.tag_name
    /\ \A n \in DOMAIN Ctor(i).kwargs :
         n \in DOMAIN heap[i].args /\ heap[i].args[n] = Ctor(i).kwargs[n]
    /\ "tag_name" \notin DOMAIN heap[i].args

C8_witness ==
  \E i \in Items : \E j \in Items :
    /\ i < j
    /\ TagName(heap[i], classTag) = "feGaussianBlur"
    /\ heap[i].args = [n \in {"stdDeviation"} |-> PyInt(3)]
    /\ TagName(heap[j], classTag) = "feOffset"

\* C5: get_svg_defs on an element of a defs-root class returns a tuple of
\* length one holding the element itself, not one of its children,
\* whatever children the element has been given.
C5_defs_self ==
  ret.op = "get_svg_defs" =>
    /\ IsDrawingDef(heap[ret.self].cls)
    /\ ret.kind = "tuple"
    /\ Len(ret.ids) = 1
    /\ ret.ids[1] = ret.self

C5_witness ==
  /\ ret.op = "get_svg_defs"
  /\ heap[ret.self].cls = "Filter"
  /\ Len(heap[ret.self].children) = 2

\* The step is a call of add_stop on gradient g that returned.
AddStopOn(g) ==
  /\ Len(hist'[g]) = Len(hist[g]) + 1
  /\ Last(hist'[g]).op = "add_stop"

\* C3: a call of add_stop on a LinearGradient adds exactly one child, as the
\* last one, with offset, stop_color and stop_opacity as passed, and returns
\* that child.
C3_add_stop ==
  [][\A g \in Elems :
       heap[g].cls = "LinearGradient" /\ AddStopOn(g) =>
         LET a    == Last(hist'[g]).args
             kids == heap'[g].children
             new  == Last(kids)
         IN  /\ Len(kids) = Len(heap[g].children) + 1
             /\ heap'[new].cls = "GradientStop"
             /\ heap'[new].args.offset = a.offset
             /\ heap'[new].args.stop_color = a.stop_color
             /\ heap'[new].args.stop_opacity = a.stop_opacity
             /\ ret'.kind = "ref"
             /\ ret'.ids = <<new>>]_vars

C3_witness ==
  \E g \in Elems :
    /\ heap[g].cls = "LinearGradient"
    /\ Len(heap[g].children) = 2
    /\ ret = Ret("add_stop", g, "ref", <<Last(heap[g].children)>>)
    /\ heap[Last(heap[g].children)].args =
         StopArgs(PyHalves(1), PyStr("red"), None)
    /\ heap[heap[g].children[1]].args =
         StopArgs(PyHalves(1), PyStr("blue"), PyHalves(1))

Gradients ==
  {i \in Elems : heap[i].cls \in {"LinearGradient", "RadialGradient"}}

\* The stops of gradient g, in order: their attribute maps.
Stops(g) ==
  [j \in 1..Len(heap[g].children) |-> heap[heap[g].children[j]].args]

\* The add_stop calls made on gradient g that returned, in order.
AddStops(g) == Tail(hist[g])

\* C9: a linear and a radial gradient given the same add_stop calls have
\* the same stops in the same order, one per call and as the call passed
\* them; the linear call returns the stop and the radial one returns None.
C9_same_stops ==
  /\ \A g \in Gradients :
       /\ Len(Stops(g)) = Len(AddStops(g))
       /\ \A j \in 1..Len(Stops(g)) :
            heap[heap[g].children[j]].cls = "GradientStop"
  /\ \A g1 \in Gradients : \A g2 \in Gradients :
       /\ heap[g1].cls = "LinearGradient"
       /\ heap[g2].cls = "RadialGradient"
       /\ AddStops(g1) = AddStops(g2)
       => Stops(g1) = Stops(g2)
  /\ ret.op = "add_stop" /\ ret.kind # "TypeError" =>
       IF heap[ret.self].cls = "LinearGradient"
         THEN ret.kind = "ref" /\ ret.ids = <<Last(heap[ret.self].children)>>
         ELSE ret.kind = "None" /\ ret.ids = <<>>

C9_witness ==
  /\ ret = Ret("add_stop", 2, "None", <<>>)
  /\ Len(AddStops(1)) = 2
  /\ AddStops(1) = AddStops(2)
  /\ AddStops(1)[1] # AddStops(1)[2]
  /\ Stops(2)[1] = StopArgs(PyHalves(1), PyStr("red"), None)
  /\ Stops(2)[2] = StopArgs(PyHalves(1), PyStr("blue"), PyHalves(1))

IsPrefix(p, q) ==
  Len(p) <= Len(q) /\ \A j \in 1..Len(p) : p[j] = q[j]

\* C10: no step changes an element's class or attributes, or removes,
\* reorders or changes a child it has; and the stops of a gradient are those
\* its add_stop calls created, in call order.
C10_frame ==
  [][/\ \A i \in Elems :
          /\ heap'[i].cls = heap[i].cls
          /\ heap'[i].args = heap[i].args
          /\ IsPrefix(heap[i].children, heap'[i].children)
     /\ \A g \in 1..Len(heap') :
          heap'[g].cls \in {"LinearGradient", "RadialGradient"} =>
            /\ Len(heap'[g].children) = Len(hist'[g]) - 1
            /\ \A j \in 1..Len(heap'[g].children) :
                 heap'[heap'[g].children[j]].args = hist'[g][j + 1].args
            /\ \A n \in DOMAIN hist'[g][1].args \ {"y1", "y2", "cy", "fy"} :
                 heap'[g].args[n] = hist'[g][1].args[n]]_vars

C10_witness ==
  \E g \in Elems :
    /\ heap[g].cls = "RadialGradient"
    /\ heap[g].args.gradientUnits = PyStr("objectBoundingBox")
    /\ heap[g].args.cy = PyInt(0)
    /\ Len(heap[g].children) = 2
    /\ Stops(g)[1].stop_color = PyStr("blue")
    /\ Stops(g)[2].stop_color = PyStr("red")

=============================================================================
